---- MODULE Spec2Model ----
(***************************************************************************)
(* Model of the warband-face-editor backend: the face-code codec and its   *)
(* three HTTP operations (SpecFace), the profile upload/list/update        *)
(* operations over the uploads directory (SpecProfiles), and the real-time *)
(* face-update channel (SpecChannel).                                      *)
(*                                                                         *)
(* Python integers are unbounded, so a face_int is never held in a TLC     *)
(* integer: it is a record [neg, mag] with mag the little-endian bit       *)
(* sequence of its magnitude; text is a sequence of one-character strings. *)
(***************************************************************************)
EXTENDS Integers, Sequences, FiniteSets, TLC

VARIABLES
    req,        \* face endpoints: the last request handled
    resp,       \* face endpoints: the response to it
    fs,         \* UPLOADS_DIR: identifier |-> content of <identifier>.dat
    issued,     \* identifiers uuid4() has returned so far
    stored,     \* identifier |-> content, for every upload that returned success
    preq,       \* profile endpoints: the last request and what its handler did
    presp,      \* profile endpoints: the response to it
    pc,         \* channel handler position: "accept", "receive", "handle", "done", "crashed"
    connected,  \* the client's end of the channel is still there
    data,       \* the message websocket.receive_text() returned, being handled
    log         \* channel history: <<"recv", message>> and <<"send", frame>> in order

vars == <<req, resp, fs, issued, stored, preq, presp, pc, connected, data, log>>
faceVars == <<req, resp>>
profileVars == <<fs, issued, stored, preq, presp>>
channelVars == <<pc, connected, data, log>>

None == [none |-> TRUE]

(***************************************************************************)
(* Bounds of the model.                                                    *)
(***************************************************************************)
MaxLen == 4        \* longest free-form text handed to decode / validate
NumIds == 3        \* identifiers uuid4() can hand out
MaxMsgs == 3       \* messages a client sends on one connection

(***************************************************************************)
(* Program constants.                                                      *)
(***************************************************************************)
MORPH_BITS == 3
INDEX_BITS == 6
NUM_MORPHS == 8
HAIR_SHIFT == 24
BEARD_SHIFT == 30
AGE_SHIFT == 36
SKIN_SHIFT == 42
HEX_WIDTH == 16
MAX_UPLOAD_SIZE == 10485760

(***************************************************************************)
(* Arithmetic helpers on small naturals and on bit sequences.              *)
(***************************************************************************)
Pow2Table == <<1, 2, 4, 8, 16, 32, 64, 128, 256, 512, 1024>>

\* 2^n for n in 0..10
Pow2(n) == Pow2Table[n + 1]

\* bit j of a natural v below 2^10
ValBit(v, j) == IF j > 9 THEN 0 ELSE (v \div Pow2(j)) % 2

\* v & (2^bits - 1) for a natural v
Mask(v, bits) == v % Pow2(bits)

\* bit k (0-based) of a magnitude; bits past its end are 0
MagBit(mag, k) == IF k + 1 <= Len(mag) THEN mag[k + 1] ELSE 0

MagIsZero(mag) == \A i \in 1..Len(mag) : mag[i] = 0

\* magnitude minus one, for a non-zero magnitude: the borrow runs through the
\* low zeros
RECURSIVE MagDec(_)
MagDec(mag) ==
    IF mag = <<>> THEN <<>>
    ELSE IF Head(mag) = 1 THEN <<0>> \o Tail(mag)
    ELSE <<1>> \o MagDec(Tail(mag))

RECURSIVE Flip(_)
Flip(bits) == IF bits = <<>> THEN <<>> ELSE <<1 - Head(bits)>> \o Flip(Tail(bits))

\* a Python int in two's complement: its stored bits, and the bit every
\* position past them holds (the sign extension)
TwosComplement(n) ==
    IF n.neg /\ ~MagIsZero(n.mag)
    THEN [bits |-> Flip(MagDec(n.mag)), ext |-> 1]
    ELSE [bits |-> n.mag, ext |-> 0]

\* bit k (0-based) of a two's complement value
PyBit(tc, k) == IF k + 1 <= Len(tc.bits) THEN tc.bits[k + 1] ELSE tc.ext

RECURSIVE FieldSum(_, _, _, _)
FieldSum(tc, shift, k, width) ==
    IF k = width THEN 0
    ELSE PyBit(tc, shift + k) * Pow2(k) + FieldSum(tc, shift, k + 1, width)

\* (n >> shift) & (2^width - 1), n in two's complement
ShiftAnd(tc, shift, width) == FieldSum(tc, shift, 0, width)

\* acc | (v << shift), for a natural v below 2^10
OrShift(acc, v, shift) ==
    SubSeq(acc, 1, shift)
    \o [j \in 1..10 |-> IF acc[shift + j] = 1 \/ ValBit(v, j - 1) = 1 THEN 1 ELSE 0]
    \o SubSeq(acc, shift + 11, Len(acc))

(***************************************************************************)
(* Text: hexadecimal digits, Python's int(text, 16) and format(n, "016x"). *)
(***************************************************************************)
HexLower == <<"0", "1", "2", "3", "4", "5", "6", "7", "8", "9", "a", "b", "c", "d", "e", "f">>
HexUpper == <<"0", "1", "2", "3", "4", "5", "6", "7", "8", "9", "A", "B", "C", "D", "E", "F">>

HexChars == {HexLower[i] : i \in 1..16} \cup {HexUpper[i] : i \in 1..16}
HexValues == [c \in HexChars |-> (CHOOSE i \in 1..16 : HexLower[i] = c \/ HexUpper[i] = c) - 1]

IsHex(c) == c \in HexChars
HexVal(c) == HexValues[c]

Drop(s, n) == SubSeq(s, n + 1, Len(s))
StartsWith(s, p) == Len(s) >= Len(p) /\ SubSeq(s, 1, Len(p)) = p

\* digits separated by single underscores, at least one digit
DigitGroups(d) ==
    /\ Len(d) > 0
    /\ d[1] # "_"
    /\ d[Len(d)] # "_"
    /\ \A i \in 1..Len(d) : d[i] = "_" \/ IsHex(d[i])
    /\ \A i \in 1..(Len(d) - 1) : ~(d[i] = "_" /\ d[i + 1] = "_")

NibbleBits == [v \in 0..15 |-> <<v % 2, (v \div 2) % 2, (v \div 4) % 2, (v \div 8) % 2>>]

\* little-endian bits of a big-endian hexadecimal digit string
RECURSIVE MagOfDigits(_)
MagOfDigits(ds) ==
    IF ds = <<>> THEN <<>>
    ELSE NibbleBits[HexVal(ds[Len(ds)])] \o MagOfDigits(SubSeq(ds, 1, Len(ds) - 1))

\* int(text, 16): optional sign, optional 0x / 0X, optional underscore after
\* the prefix, digit groups; anything else raises ValueError (ok = FALSE)
int16(text) ==
    LET neg == Len(text) > 0 /\ text[1] = "-"
        t1 == IF neg THEN Drop(text, 1) ELSE text
        pre == StartsWith(t1, <<"0", "x">>) \/ StartsWith(t1, <<"0", "X">>)
        t2 == IF pre THEN Drop(t1, 2) ELSE t1
        t3 == IF pre /\ Len(t2) > 0 /\ t2[1] = "_" THEN Drop(t2, 1) ELSE t2
    IN  IF DigitGroups(t3)
        THEN [ok |-> TRUE, neg |-> neg, mag |-> MagOfDigits(SelectSeq(t3, IsHex))]
        ELSE [ok |-> FALSE, neg |-> FALSE, mag |-> <<>>]

\* f"0x{face_int:016x}" for a face_int below 2^64 held as 64 bits
FormatHex(acc) ==
    <<"0", "x">> \o
    [j \in 1..HEX_WIDTH |->
        LET lo == 4 * (HEX_WIDTH - j)
        IN  HexLower[1 + acc[lo + 1] + 2 * acc[lo + 2] + 4 * acc[lo + 3] + 8 * acc[lo + 4]]]

ZeroAcc == [k \in 1..(4 * HEX_WIDTH) |-> 0]

(***************************************************************************)
(* FaceParameters: the declared field constraints and the two validators.  *)
(* A raw payload is a record that may lack fields; the result is the set   *)
(* of fields the construction rejects (empty: the record is constructed).  *)
(***************************************************************************)
FaceFields == {"morphs", "hair_index", "beard_index", "age", "skin_tone"}

validate_morph_values(v) == \A i \in 1..Len(v) : 0 <= v[i] /\ v[i] <= 7

validate_skin_tone(v) == v \in {0, 1, 2, 3, 4}

IndexField(raw, f) == 0 <= raw[f] /\ raw[f] <= 63

FaceParametersErrors(raw) ==
    {f \in FaceFields : f \notin DOMAIN raw}
    \cup {f \in {"morphs"} \cap DOMAIN raw :
            ~(Len(raw[f]) = 8 /\ validate_morph_values(raw[f]))}
    \cup {f \in {"hair_index", "beard_index", "age"} \cap DOMAIN raw : ~IndexField(raw, f)}
    \cup {f \in {"skin_tone"} \cap DOMAIN raw :
            ~(0 <= raw[f] /\ raw[f] <= 4 /\ validate_skin_tone(raw[f]))}

FaceParameters(raw) ==
    LET errors == FaceParametersErrors(raw)
    IN  IF errors = {}
        THEN [ok |-> TRUE,
              value |-> [morphs |-> raw.morphs, hair_index |-> raw.hair_index,
                         beard_index |-> raw.beard_index, age |-> raw.age,
                         skin_tone |-> raw.skin_tone]]
        ELSE [ok |-> FALSE, error |-> errors]

\* FaceCode.hex_code: the pattern ^0x[0-9a-fA-F]+$
FaceCode(text) ==
    /\ StartsWith(text, <<"0", "x">>)
    /\ Len(text) > 2
    /\ \A i \in 3..Len(text) : IsHex(text[i])

(***************************************************************************)
(* FaceCodeService.                                                        *)
(***************************************************************************)
skin_map == (0 :> 0) @@ (16 :> 1) @@ (32 :> 2) @@ (48 :> 3) @@ (64 :> 4)

skin_values == <<0, 16, 32, 48, 64>>

\* the raw 6-bit value the decoder reads at bits 42..47
RawSkin(face_int) == ShiftAnd(face_int, SKIN_SHIFT, INDEX_BITS)

FaceCodeService_decode_face_code(hex_code) ==
    LET text == IF StartsWith(hex_code, <<"0", "x">>) THEN Drop(hex_code, 2) ELSE hex_code
        parsed == int16(text)
        face_int == TwosComplement(parsed)
        raw_skin == RawSkin(face_int)
    IN  IF ~parsed.ok
        THEN [ok |-> FALSE, error |-> "ValueError"]
        ELSE [ok |-> TRUE,
              value |->
                [morphs |-> [i \in 1..NUM_MORPHS |->
                                ShiftAnd(face_int, (i - 1) * MORPH_BITS, MORPH_BITS)],
                 hair_index |-> ShiftAnd(face_int, HAIR_SHIFT, INDEX_BITS),
                 beard_index |-> ShiftAnd(face_int, BEARD_SHIFT, INDEX_BITS),
                 age |-> ShiftAnd(face_int, AGE_SHIFT, INDEX_BITS),
                 skin_tone |-> IF raw_skin \in DOMAIN skin_map THEN skin_map[raw_skin] ELSE 0]]

RECURSIVE EncodeMorphs(_, _, _)
EncodeMorphs(acc, morphs, i) ==
    IF i >= Len(morphs) THEN acc
    ELSE EncodeMorphs(OrShift(acc, Mask(morphs[i + 1], MORPH_BITS), i * MORPH_BITS),
                      morphs, i + 1)

\* the accumulator face_int the encoder renders
EncodeInt(params) ==
    LET a0 == EncodeMorphs(ZeroAcc, params.morphs, 0)
        a1 == OrShift(a0, Mask(params.hair_index, INDEX_BITS), HAIR_SHIFT)
        a2 == OrShift(a1, Mask(params.beard_index, INDEX_BITS), BEARD_SHIFT)
        a3 == OrShift(a2, Mask(params.age, INDEX_BITS), AGE_SHIFT)
        skin_value == skin_values[params.skin_tone + 1]
    IN  OrShift(a3, Mask(skin_value, INDEX_BITS), SKIN_SHIFT)

FaceCodeService_encode_face_code(params) == FormatHex(EncodeInt(params))

(***************************************************************************)
(* Inputs.                                                                 *)
(***************************************************************************)
Chars == {"0", "7", "f", "A", "x", "X", "g", "-", "_"}

\* free-form text of 1..MaxLen characters
TextInputs == UNION {[1..n -> Chars] : n \in 1..MaxLen}

\* every field at its minimum (hi = FALSE) or at its maximum (hi = TRUE)
Background(hi, s) ==
    [morphs |-> [i \in 1..NUM_MORPHS |-> IF hi THEN 7 ELSE 0],
     hair_index |-> IF hi THEN 63 ELSE 0, beard_index |-> IF hi THEN 63 ELSE 0,
     age |-> IF hi THEN 63 ELSE 0, skin_tone |-> s]

\* valid FaceParameters payloads: one slider swept over its whole range, the
\* others all at their minimum or all at their maximum, for every skin tone
ParamInputs ==
    {[Background(hi, s) EXCEPT !.morphs[k] = v] :
        hi \in BOOLEAN, s \in 0..4, k \in 1..NUM_MORPHS, v \in 0..7}
    \cup {[Background(hi, s) EXCEPT ![f] = v] :
        hi \in BOOLEAN, s \in 0..4, f \in {"hair_index", "beard_index", "age"}, v \in 0..63}

SampleParams == [morphs |-> <<0, 1, 2, 3, 4, 5, 6, 7>>, hair_index |-> 10,
                 beard_index |-> 20, age |-> 30, skin_tone |-> 2]

\* payloads FaceParameters rejects: a field missing, a wrong morph count, a
\* value one past either end of its range
InvalidPayloads ==
    {[f \in FaceFields \ {g} |-> SampleParams[f]] : g \in FaceFields}
    \cup {[SampleParams EXCEPT !.morphs = m] :
            m \in {<<0, 1, 2, 3, 4, 5, 6>>, <<0, 1, 2, 3, 4, 5, 6, 7, 0>>,
                   <<0, 1, 2, 3, 4, 5, 6, 8>>, <<-1, 1, 2, 3, 4, 5, 6, 7>>}}
    \cup {[SampleParams EXCEPT ![f] = v] :
            f \in {"hair_index", "beard_index", "age"}, v \in {-1, 64}}
    \cup {[SampleParams EXCEPT !.skin_tone = v] : v \in {-1, 5}}

LowOnes == [k \in 1..(4 * HEX_WIDTH) |-> IF k <= SKIN_SHIFT THEN 1 ELSE 0]

\* 18-character codes carrying every 7-bit value at bits 42..48
RawCodes == {FormatHex(OrShift(base, v, SKIN_SHIFT)) : v \in 0..127, base \in {ZeroAcc, LowOnes}}

FaceRequests ==
    {[op |-> "encode", body |-> raw] : raw \in ParamInputs \cup InvalidPayloads}
    \cup {[op |-> o, code |-> t, origin |-> None] :
            o \in {"decode", "validate"}, t \in TextInputs \cup RawCodes}

(***************************************************************************)
(* Face endpoints.  Each handler runs without suspension; a request is     *)
(* pending while resp = None.                                              *)
(***************************************************************************)
\* POST /face/encode: the body is constructed as FaceParameters before the handler
encode_face_parameters ==
    /\ req.op = "encode"
    /\ resp = None
    /\ LET params == FaceParameters(req.body)
       IN  resp' = IF ~params.ok
                   THEN [status |-> 422]
                   ELSE [status |-> 200,
                         face_code |-> FaceCodeService_encode_face_code(params.value)]
    /\ UNCHANGED <<req, profileVars, channelVars>>

\* POST /face/decode: the body is constructed as FaceCode before the handler
decode_face_code ==
    /\ req.op = "decode"
    /\ resp = None
    /\ LET params_dict == FaceCodeService_decode_face_code(req.code)
           params == FaceParameters(params_dict.value)
       IN  resp' = IF ~FaceCode(req.code) THEN [status |-> 422]
                   ELSE IF ~params_dict.ok THEN [status |-> 400]
                   ELSE IF ~params.ok THEN [status |-> 400]
                   ELSE [status |-> 200, parameters |-> params.value,
                         face_code |-> req.code]
    /\ UNCHANGED <<req, profileVars, channelVars>>

ValidateUncaught(face_code) ==
    LET params_dict == FaceCodeService_decode_face_code(face_code)
    IN  IF ~params_dict.ok
        THEN [status |-> 500]
        ELSE [status |-> 200, valid |-> TRUE, face_code |-> face_code,
              message |-> "Face code is valid"]

\* what GET /face/validate/{face_code} returns
ValidateResult(face_code) ==
    LET params_dict == FaceCodeService_decode_face_code(face_code)
        params == FaceParameters(params_dict.value)
    IN  IF ~params_dict.ok
        THEN [status |-> 200, valid |-> FALSE, face_code |-> face_code,
              message |-> params_dict.error]
        ELSE IF ~params.ok
        THEN [status |-> 200, valid |-> FALSE, face_code |-> face_code,
              message |-> "ValidationError"]
        ELSE [status |-> 200, valid |-> TRUE, face_code |-> face_code,
              message |-> "Face code is valid"]

validate_face_code ==
    /\ req.op = "validate"
    /\ resp = None
    /\ resp' = ValidateResult(req.code)
    /\ UNCHANGED <<req, profileVars, channelVars>>

\* the client hands the code it was given back to decode or validate, with
\* or without the 0x prefix
SubmitEncoded ==
    /\ req.op = "encode"
    /\ resp # None
    /\ resp.status = 200
    /\ \E o \in {"decode", "validate"}, strip \in BOOLEAN :
        req' = [op |-> o,
                code |-> IF strip THEN Drop(resp.face_code, 2) ELSE resp.face_code,
                origin |-> FaceParameters(req.body).value]
    /\ resp' = None
    /\ UNCHANGED <<profileVars, channelVars>>

FaceIdle == req = None /\ resp = None
ProfilesIdle == fs = <<>> /\ issued = {} /\ stored = <<>> /\ preq = None /\ presp = None
ChannelIdle == pc = "accept" /\ connected = TRUE /\ data = None /\ log = <<>>

InitFace == req \in FaceRequests /\ resp = None /\ ProfilesIdle /\ ChannelIdle

NextFace == encode_face_parameters \/ decode_face_code \/ validate_face_code \/ SubmitEncoded

SpecFace == InitFace /\ [][NextFace]_vars

(***************************************************************************)
(* Profiles.  The content of a container file is what the external         *)
(* enumeration makes of it: unreadable, or a sequence of raw characters,   *)
(* of which only the sex flag matters to Character's constraints.          *)
(***************************************************************************)
Ids == 1..NumIds

Contents ==
    {[readable |-> FALSE, sexes |-> <<>>]}
    \cup {[readable |-> TRUE, sexes |-> x] : x \in {<<>>, <<0>>, <<0, 1>>, <<2>>}}

\* what a copy that failed half-way leaves in the file
Truncated == [readable |-> FALSE, sexes |-> <<>>]

DotDat == <<".", "d", "a", "t">>

Filenames == {<<"p">> \o DotDat, DotDat, <<"p", ".", "t", "x", "t">>, <<"d", "a", "t">>}

Sizes == {0, MAX_UPLOAD_SIZE, MAX_UPLOAD_SIZE + 1}

EndsWith(text, suffix) ==
    Len(text) >= Len(suffix)
    /\ SubSeq(text, Len(text) - Len(suffix) + 1, Len(text)) = suffix

Remove(files, id) == [i \in DOMAIN files \ {id} |-> files[i]]

Put(files, id, content) == [i \in DOMAIN files \cup {id} |-> IF i = id THEN content ELSE files[i]]

\* ProfileParser._extract_face_code: the placeholder
extract_face_code(char_data) == FormatHex(ZeroAcc)

\* Character: sex is constrained to 0..1
Character(char_data) == char_data.sex \in {0, 1}

\* ProfileParser.parse_profile on a file holding content; fault is the
\* enumeration failing for a reason of its own
ProfileParser_parse_profile(content, fault) ==
    IF fault \/ ~content.readable \/ \E i \in 1..Len(content.sexes) : ~Character([sex |-> content.sexes[i]])
    THEN [ok |-> FALSE, characters |-> <<>>]
    ELSE [ok |-> TRUE,
          characters |-> [i \in 1..Len(content.sexes) |->
                            [sex |-> content.sexes[i],
                             face_code |-> extract_face_code([sex |-> content.sexes[i]])]]]

UpdateRewrites(files, upload_id, character_index, face_code) ==
    [success |-> TRUE,
     files |-> [files EXCEPT ![upload_id] = [readable |-> TRUE, sexes |-> <<1>>]]]

\* ProfileParser.update_character_face: the stub reports failure and leaves
\* the files alone
ProfileParser_update_character_face(files, upload_id, character_index, face_code) ==
    [success |-> FALSE, files |-> files]

UploadGateInclusive(filename, size) ==
    ~EndsWith(filename, DotDat) \/ size >= MAX_UPLOAD_SIZE

\* the two checks upload_profile makes before anything else: TRUE rejects
UploadGate(filename, size) == ~EndsWith(filename, DotDat) \/ size > MAX_UPLOAD_SIZE

\* uuid4(): an identifier never handed out before
uuid4 == Ids \ issued

\* the with-block: open the path for writing and copy the stream into it
SaveUpload(files, id, content, write) ==
    CASE write = "ok" -> Put(files, id, content)
      [] write = "open_fails" -> files
      [] write = "copy_fails" -> Put(files, id, Truncated)

CleanUpSkipped(files, id) == files

\* the except-branch: unlink the path if it exists
CleanUp(files, id) == IF id \in DOMAIN files THEN Remove(files, id) ELSE files

\* POST /profiles/upload
upload_profile ==
    /\ \E filename \in Filenames, size \in Sizes, content \in Contents,
          write \in {"ok", "open_fails", "copy_fails"}, fault \in BOOLEAN :
           IF UploadGate(filename, size)
           THEN /\ preq' = [op |-> "upload", filename |-> filename, size |-> size,
                            upload_id |-> 0, wrote |-> FALSE, closed |-> FALSE,
                            before |-> fs, issued_before |-> issued]
                /\ presp' = [status |-> 400]
                /\ UNCHANGED <<fs, issued, stored>>
           ELSE \E upload_id \in uuid4 :
                LET saved == SaveUpload(fs, upload_id, content, write)
                    parsed == IF write = "ok"
                              THEN ProfileParser_parse_profile(saved[upload_id], fault)
                              ELSE [ok |-> FALSE, characters |-> <<>>]
                IN  /\ issued' = issued \cup {upload_id}
                    /\ preq' = [op |-> "upload", filename |-> filename, size |-> size,
                                upload_id |-> upload_id, wrote |-> upload_id \in DOMAIN saved,
                                closed |-> TRUE, before |-> fs, issued_before |-> issued]
                    /\ IF parsed.ok
                       THEN /\ fs' = saved
                            /\ stored' = Put(stored, upload_id, content)
                            /\ presp' = [status |-> 200, upload_id |-> upload_id,
                                         filename |-> filename,
                                         character_count |-> Len(parsed.characters),
                                         characters |-> parsed.characters]
                       ELSE /\ fs' = CleanUp(saved, upload_id)
                            /\ presp' = [status |-> 400]
                            /\ UNCHANGED stored
    /\ UNCHANGED <<faceVars, channelVars>>

\* GET /profiles/{upload_id}/characters
get_characters ==
    /\ \E upload_id \in Ids, fault \in BOOLEAN :
        /\ preq' = [op |-> "list", upload_id |-> upload_id, before |-> fs]
        /\ presp' = IF upload_id \notin DOMAIN fs THEN [status |-> 404]
                    ELSE LET parsed == ProfileParser_parse_profile(fs[upload_id], fault)
                         IN  IF parsed.ok
                             THEN [status |-> 200, characters |-> parsed.characters]
                             ELSE [status |-> 400]
    /\ UNCHANGED <<fs, issued, stored, faceVars, channelVars>>

\* PUT /profiles/{upload_id}/characters/{character_index}/face
update_character_face ==
    /\ \E upload_id \in Ids, character_index \in {0, 1} :
        LET face_code == FormatHex(ZeroAcc)
            done == ProfileParser_update_character_face(fs, upload_id, character_index,
                                                        face_code)
        IN  /\ preq' = [op |-> "update", upload_id |-> upload_id, before |-> fs]
            /\ IF upload_id \notin DOMAIN fs
               THEN presp' = [status |-> 404] /\ fs' = fs
               ELSE /\ fs' = done.files
                    /\ presp' = IF done.success
                                THEN [status |-> 200, message |-> "Face updated successfully"]
                                ELSE [status |-> 400]
    /\ UNCHANGED <<issued, stored, faceVars, channelVars>>

InitProfiles == FaceIdle /\ ProfilesIdle /\ ChannelIdle

NextProfiles == upload_profile \/ get_characters \/ update_character_face

SpecProfiles == InitProfiles /\ [][NextProfiles]_vars

(***************************************************************************)
(* Real-time channel.  A received text is malformed, or JSON that is not   *)
(* an object, or an object: a record that may lack "type" and "parameters";*)
(* parameters is a mapping (a raw FaceParameters payload) or is not.       *)
(***************************************************************************)
Malformed == [json |-> FALSE]
NonObject == [json |-> TRUE, object |-> FALSE]

Mapping(raw) == [mapping |-> TRUE, value |-> raw]
NonMapping == [mapping |-> FALSE]

Object(fields) == [json |-> TRUE, object |-> TRUE, fields |-> fields]

\* one rejected payload of each kind: a field missing, a wrong morph count,
\* a morph, an index and a skin tone out of range
ChannelInvalid ==
    {[f \in FaceFields \ {"age"} |-> SampleParams[f]],
     [SampleParams EXCEPT !.morphs = <<0, 1, 2, 3, 4, 5, 6>>],
     [SampleParams EXCEPT !.morphs = <<0, 1, 2, 3, 4, 5, 6, 8>>],
     [SampleParams EXCEPT !.hair_index = 64],
     [SampleParams EXCEPT !.skin_tone = 5]}

ChannelPayloads ==
    {Mapping(raw) : raw \in {SampleParams, Background(FALSE, 4), Background(TRUE, 0)}}
    \cup {Mapping(raw) : raw \in ChannelInvalid}
    \cup {NonMapping}

ChannelMessages ==
    {Malformed, NonObject, Object(<<>>), Object([parameters |-> Mapping(SampleParams)])}
    \cup {Object([type |-> t]) : t \in {"ping", "unknown", "face_update"}}
    \cup {Object([type |-> "face_update", parameters |-> p]) : p \in ChannelPayloads}

\* update.get("type")
GetType(update) == IF "type" \in DOMAIN update THEN update.type ELSE "None"

Send(frame) == [kind |-> "send", frame |-> frame]
Raise(error) == [kind |-> "raise", error |-> error]
NoReply == [kind |-> "none"]

HandleMessageStrictType(text) ==
    IF ~text.json THEN Raise("JSONDecodeError")
    ELSE IF ~text.object THEN Raise("AttributeError")
    ELSE LET update == text.fields
         IN  IF "type" \notin DOMAIN update THEN Raise("KeyError")
             ELSE IF update.type = "face_update"
             THEN IF "parameters" \notin DOMAIN update THEN Raise("KeyError")
                  ELSE IF ~update.parameters.mapping THEN Raise("TypeError")
                  ELSE LET params == FaceParameters(update.parameters.value)
                       IN  IF params.ok
                           THEN Send([type |-> "face_update_response",
                                      parameters |-> params.value,
                                      face_code |-> FaceCodeService_encode_face_code(params.value)])
                           ELSE Send([type |-> "error", message |-> params.error])
             ELSE IF update.type = "ping" THEN Send([type |-> "pong"])
             ELSE Send([type |-> "error", message |-> {"type"}])

\* one pass of the loop body on a received text: the frame it sends, the
\* exception that leaves the loop, or nothing
HandleMessage(text) ==
    IF ~text.json THEN Raise("JSONDecodeError")
    ELSE IF ~text.object THEN Raise("AttributeError")
    ELSE LET update == text.fields
         IN  IF GetType(update) = "face_update"
             THEN IF "parameters" \notin DOMAIN update THEN Raise("KeyError")
                  ELSE IF ~update.parameters.mapping THEN Raise("TypeError")
                  ELSE LET params == FaceParameters(update.parameters.value)
                       IN  IF params.ok
                           THEN Send([type |-> "face_update_response",
                                      parameters |-> params.value,
                                      face_code |-> FaceCodeService_encode_face_code(params.value)])
                           ELSE Send([type |-> "error", message |-> params.error])
             ELSE IF GetType(update) = "ping" THEN Send([type |-> "pong"])
             ELSE NoReply

Received == Len(SelectSeq(log, LAMBDA e : e[1] = "recv"))

\* await websocket.accept()
Accept ==
    /\ pc = "accept"
    /\ pc' = "receive"
    /\ UNCHANGED <<connected, data, log, faceVars, profileVars>>

\* await websocket.receive_text() returns a message
Receive ==
    /\ pc = "receive"
    /\ connected
    /\ Received < MaxMsgs
    /\ \E text \in ChannelMessages :
        /\ data' = text
        /\ log' = Append(log, <<"recv", text>>)
    /\ pc' = "handle"
    /\ UNCHANGED <<connected, faceVars, profileVars>>

\* await websocket.receive_text() raises WebSocketDisconnect
ReceiveDisconnect ==
    /\ pc = "receive"
    /\ ~connected
    /\ pc' = "done"
    /\ UNCHANGED <<connected, data, log, faceVars, profileVars>>

\* the rest of the loop body; a send to a client that has gone raises, as
\* WebSocketDisconnect (caught) or as another error (not caught)
Handle ==
    /\ pc = "handle"
    /\ LET out == HandleMessage(data)
       IN  CASE out.kind = "raise" -> pc' = "crashed" /\ log' = log
             [] out.kind = "none" -> pc' = "receive" /\ log' = log
             [] out.kind = "send" ->
                    IF connected
                    THEN pc' = "receive" /\ log' = Append(log, <<"send", out.frame>>)
                    ELSE pc' \in {"done", "crashed"} /\ log' = log
    /\ data' = None
    /\ UNCHANGED <<connected, faceVars, profileVars>>

\* the client goes away
Disconnect ==
    /\ pc \in {"receive", "handle"}
    /\ connected
    /\ connected' = FALSE
    /\ UNCHANGED <<pc, data, log, faceVars, profileVars>>

InitChannel == FaceIdle /\ ProfilesIdle /\ ChannelIdle

NextChannel == Accept \/ Receive \/ ReceiveDisconnect \/ Handle \/ Disconnect

SpecChannel == InitChannel /\ [][NextChannel]_vars

(***************************************************************************)
(* Properties of the face codec and its endpoints (SpecFace).              *)
(***************************************************************************)
\* the raw value at bits 42..47 of the integer a code denotes
SkinFieldOf(code) ==
    RawSkin(TwosComplement(int16(IF StartsWith(code, <<"0", "x">>) THEN Drop(code, 2) ELSE code)))

\* C1: round-trip identity: decoding the code that encoding a valid
\* FaceParameters p produced returns p, field for field.
RoundTripIdentity ==
    (req # None /\ req.op = "decode" /\ resp # None /\ req.origin # None /\ FaceCode(req.code))
        => (resp.status = 200 /\ resp.parameters = req.origin)

\* C2: skin-tone palette packing: encoding skin_tone i puts 16 * i at bits
\* 42..47 of the encoded integer, and decoding a value whose bits 42..47 hold
\* 16 * i gives skin_tone i, for i in 0..4.
SkinPalettePacking ==
    /\ (req # None /\ req.op = "encode" /\ resp # None /\ resp.status = 200)
        => SkinFieldOf(resp.face_code) = 16 * req.body.skin_tone
    /\ (req # None /\ req.op = "decode" /\ resp # None /\ resp.status = 200)
        => \A i \in 0..4 :
            SkinFieldOf(req.code) = 16 * i => resp.parameters.skin_tone = i

\* text made of hexadecimal digits only, with or without the 0x prefix
PlainHex(code) ==
    LET digits == IF StartsWith(code, <<"0", "x">>) THEN Drop(code, 2) ELSE code
    IN  Len(digits) > 0 /\ \A i \in 1..Len(digits) : IsHex(digits[i])

\* C7: validate never errors: every input gets a normal result echoing the
\* input; valid is FALSE with the failure's message exactly when decoding or
\* the FaceParameters construction raises, TRUE otherwise; plain hexadecimal
\* text is valid, and text holding a letter that is no digit, separator or
\* prefix, or nothing after the prefix, is not.
ValidateNeverErrors ==
    (req # None /\ req.op = "validate" /\ resp # None) =>
        LET decoded == FaceCodeService_decode_face_code(req.code)
            raises == ~decoded.ok \/ ~FaceParameters(decoded.value).ok
        IN  /\ resp.status = 200
            /\ DOMAIN resp = {"status", "valid", "face_code", "message"}
            /\ resp.face_code = req.code
            /\ resp.valid = ~raises
            /\ resp.valid => resp.message = "Face code is valid"
            /\ ~resp.valid => resp.message \in {"ValueError", "ValidationError"}
            /\ PlainHex(req.code) => resp.valid
            /\ (req.code = <<"0", "x">> \/ \E i \in 1..Len(req.code) : req.code[i] = "g")
                    => ~resp.valid

ValidateRejectsMalformed ==
    /\ req # None /\ req.op = "validate" /\ resp # None
    /\ \E i \in 1..Len(req.code) : req.code[i] = "g"
    /\ resp.status = 200 /\ ~resp.valid

(***************************************************************************)
(* Properties of the profile endpoints (SpecProfiles).                     *)
(***************************************************************************)
IsUpload == preq # None /\ preq.op = "upload"

\* the last request was an upload that passed both checks and then failed
UploadFailedAfterGate == IsUpload /\ preq.upload_id # 0 /\ presp.status # 200

\* C3: upload stream closure: every upload closes the incoming stream before
\* it returns, whether it is rejected, fails or succeeds.
UploadStreamClosed == IsUpload => preq.closed

\* C4: upload cleanup on failure: when an upload passes both checks and the
\* write or the parse then raises, the caller gets a 400, no file is left at
\* the upload's path, and the directory holds what it held before the request.
UploadCleanupOnFailure ==
    UploadFailedAfterGate =>
        /\ presp.status = 400
        /\ preq.upload_id \notin DOMAIN fs
        /\ fs = preq.before

UploadFailedAfterWrite ==
    UploadFailedAfterGate /\ preq.wrote /\ preq.before # <<>> /\ fs = preq.before

\* C5: upload gate: a filename not ending in .dat, or a size above
\* MAX_UPLOAD_SIZE, is rejected with a 400 before any identifier is generated
\* and before any file is created; a .dat upload of exactly MAX_UPLOAD_SIZE
\* bytes passes the gate.
UploadGateRejects ==
    /\ (IsUpload /\ (~EndsWith(preq.filename, DotDat) \/ preq.size > 10485760))
        => /\ presp.status = 400
           /\ preq.upload_id = 0
           /\ issued = preq.issued_before
           /\ fs = preq.before
           /\ ~preq.wrote
    /\ (IsUpload /\ EndsWith(preq.filename, DotDat) /\ preq.size <= 10485760)
        => preq.upload_id \in issued \ preq.issued_before

UploadRejectedAtGate ==
    /\ IsUpload /\ preq.size = 10485761 /\ EndsWith(preq.filename, DotDat)
    /\ presp.status = 400 /\ fs # <<>> /\ Cardinality(issued) < NumIds

\* C6: stored uploads stay: every upload that returned success still has its
\* file, with the content it was uploaded with, after any later list, update
\* and upload, failed ones included; the only files ever deleted are those of
\* uploads that failed, so the directory holds exactly the successful uploads.
StoredUploadsUntouched ==
    /\ \A u \in DOMAIN stored : u \in DOMAIN fs /\ fs[u] = stored[u]
    /\ DOMAIN fs = DOMAIN stored

StoredSurvivesFailedUpdate ==
    /\ preq # None /\ preq.op = "update" /\ presp.status = 400
    /\ preq.upload_id \in DOMAIN stored
    /\ Cardinality(issued) > Cardinality(DOMAIN stored)

(***************************************************************************)
(* Properties of the real-time channel (SpecChannel).                      *)
(***************************************************************************)
IsRecv(i) == i \in 1..Len(log) /\ log[i][1] = "recv"
IsSend(i) == i \in 1..Len(log) /\ log[i][1] = "send"

\* message i has been handled: the loop body has run on it
Handled(i) == i < Len(log) \/ pc # "handle"

TypeOf(text) == IF text.json /\ text.object THEN GetType(text.fields) ELSE "NotAnObject"

\* a JSON object whose type is neither face_update nor ping
IsNoOp(text) == text.json /\ text.object /\ TypeOf(text) \notin {"face_update", "ping"}

\* a face_update whose parameters do not form a FaceParameters: the
\* parameters object is missing, or it is a mapping the construction rejects
IsInvalidUpdate(text) ==
    /\ TypeOf(text) = "face_update"
    /\ \/ "parameters" \notin DOMAIN text.fields
       \/ /\ text.fields.parameters.mapping
          /\ FaceParametersErrors(text.fields.parameters.value) # {}

IsErrorFrame(i) == IsSend(i) /\ log[i][2].type = "error"

\* C8: a validation failure keeps the session alive: every face_update whose
\* parameters do not form a valid FaceParameters is answered by exactly one
\* error frame, and the loop goes on to the next message.
ChannelValidationErrorKeepsSession ==
    \A i \in 1..Len(log) :
        (IsRecv(i) /\ IsInvalidUpdate(log[i][2]) /\ Handled(i) /\ connected)
            => /\ IsErrorFrame(i + 1)
               /\ ~IsSend(i + 2)
               /\ i + 1 = Len(log) => pc = "receive"

ChannelSequentialProcessing ==
    /\ \A i \in 1..Len(log) :
        IsSend(i) => /\ IsRecv(i - 1)
                     /\ TypeOf(log[i - 1][2]) \in {"ping", "face_update"}
                     /\ TypeOf(log[i - 1][2]) = "ping" <=> log[i][2].type = "pong"
    /\ \A i \in 1..Len(log) :
        (IsRecv(i) /\ Handled(i) /\ connected
            /\ TypeOf(log[i][2]) \in {"ping", "face_update"})
            => /\ IsSend(i + 1)
               /\ log[i + 1][2].type \in
                    IF TypeOf(log[i][2]) = "ping" THEN {"pong"}
                    ELSE {"face_update_response", "error"}
    /\ pc = "done" => ~connected

====
